---- MODULE Spec2Model ----
(***************************************************************************)
(* Model of the real-time notification and cached-query layer of the      *)
(* service portal: the read-through cache (server/cache.ts), the           *)
(* WebSocketManager (server/websocket.ts) and the HTTP routes that use     *)
(* them (server/routes.ts).                                                *)
(*                                                                         *)
(* Time is counted in seconds (node-cache counts milliseconds and          *)
(* multiplies every ttl by 1000; the comparison it makes is the same).     *)
(* Strings that the code builds with template literals and compares with   *)
(* String.includes are sequences of one-character strings.                 *)
(***************************************************************************)
EXTENDS Integers, Sequences, FiniteSets, TLC

VARIABLES
    cache,      \* NodeCache.data: key -> [v, t] plus the ghost field exp
    now,        \* Date.now(), in seconds
    calls,      \* the withCache calls: their position and what they returned
    prev,       \* ghost: per key, what the latest completed withCache call returned
    db,         \* per company, the version of its conversation list in the database
    posts,      \* the POST /api/messages requests: their position
    synced,     \* ghost: per company, the database version of the latest
                \* write whose cache invalidation has run
    users,      \* the users table: per user id, the row or none
    clients,    \* WebSocketManager.clients: company key -> array of connections
    conns,      \* the connections: the fields of each AuthenticatedWebSocket
    wssClients, \* WebSocketServer.clients: the connections the server tracks
    sent,       \* per connection, the frames passed to its send()
    published,  \* ghost: the broadcastToCompany calls made so far
    hook,       \* the client's useWebSocket hook: its refs, sockets, timers
    api,        \* the client's apiRequest call: its position and arguments
    last        \* ghost: the operation the last step executed

cacheVars == <<cache, calls, prev>>
routeVars == <<db, posts, synced, users>>
wsVars == <<clients, conns, wssClients, sent, published>>
clientVars == <<hook, api>>

vars == <<cache, now, calls, prev, db, posts, synced, users,
          clients, conns, wssClients, sent, published, hook, api, last>>

-----------------------------------------------------------------------------
(* Bounds of the model *)

MaxCalls == 2
MaxTime == 121
MaxPosts == 1
MaxConns == 2
MaxPublish == 1
MaxEvents == 2
MaxPongs == 1
MaxSockets == 8
MaxEnables == 2
MaxRetries == 4

(* Program constants *)

stdTTL == 300
ConversationsTtl == 60
maxReconnectAttempts == 5
DefaultRetries == 3

-----------------------------------------------------------------------------
(* Strings *)

Digits == <<"0", "1", "2", "3", "4", "5", "6", "7", "8", "9">>

RECURSIVE NumberToString(_)
NumberToString(n) ==
    IF n < 10 THEN <<Digits[n + 1]>>
    ELSE NumberToString(n \div 10) \o <<Digits[(n % 10) + 1]>>

\* String.prototype.includes
Includes(str, pattern) ==
    \E i \in 0..(Len(str) - Len(pattern)) :
        SubSeq(str, i + 1, i + Len(pattern)) = pattern

\* `conversations:${user.companyId}`
conversationsKey(companyId) ==
    <<"c", "o", "n", "v", "e", "r", "s", "a", "t", "i", "o", "n", "s", ":">>
        \o NumberToString(companyId)

-----------------------------------------------------------------------------
(* Values *)

\* A JavaScript value a fetcher resolves with: a number, or an array (the
\* conversation list, abstracted to the database version it was read from).
Num(n) == [type |-> "number", val |-> n]
Arr(n) == [type |-> "array", val |-> n]
Undefined == [type |-> "undefined", val |-> 0]

\* ToBoolean: 0 and undefined are falsy, every array is truthy.
Truthy(x) ==
    /\ x.type # "undefined"
    /\ ~(x.type = "number" /\ x.val = 0)

\* The ttl argument of withCache; NoTtl stands for an omitted argument.
NoTtl == -1

Companies == {1, 2, 12}
CacheKeys == {conversationsKey(1), conversationsKey(12)}
Patterns == {conversationsKey(1), conversationsKey(12), <<"2">>, <<"x">>}
FetchValues == {Num(0), Num(1)}
FetchErrors == {"E1", "E2"}
TtlArgs == {NoTtl, 0, ConversationsTtl}
CallIds == 1..MaxCalls
PostIds == 1..MaxPosts
ConnIds == 1..MaxConns

-----------------------------------------------------------------------------
(* node-cache, as configured in cache.ts: stdTTL 300, useClones false *)

\* _wrap: the expiry stored with a value; 0 means the entry never expires.
NodeCacheWrap(time, ttl) ==
    IF ttl = 0 THEN 0
    ELSE IF ttl # NoTtl THEN time + ttl
    ELSE IF stdTTL = 0 THEN 0
    ELSE time + stdTTL

\* _check: an entry is live unless its expiry is set and in the past.
NodeCacheCheck(entry, time) == ~(entry.t # 0 /\ entry.t < time)

NodeCacheDel(data, keys) ==
    [k \in (DOMAIN data) \ keys |-> data[k]]

\* get: the live value under key or undefined; an expired entry is deleted.
NodeCacheGet(data, time, key) ==
    IF key \notin DOMAIN data
    THEN [value |-> Undefined, hit |-> FALSE, data |-> data]
    ELSE IF NodeCacheCheck(data[key], time)
    THEN [value |-> data[key].v, hit |-> TRUE, data |-> data]
    ELSE [value |-> Undefined, hit |-> FALSE, data |-> NodeCacheDel(data, {key})]

\* set: stores value under key with the wrapped expiry. The field exp is a
\* ghost: the time the entry was stored at plus the ttl in seconds it was
\* given (the default when none was given).
NodeCacheSet(data, time, key, value, ttl) ==
    [k \in (DOMAIN data) \cup {key} |->
        IF k = key
        THEN [v |-> value, t |-> NodeCacheWrap(time, ttl),
              exp |-> time + (IF ttl = NoTtl THEN stdTTL ELSE ttl)]
        ELSE data[k]]

NodeCacheKeys(data) == DOMAIN data

\* _checkData, run every checkperiod: deletes the expired entries.
NodeCacheCheckData(data, time) ==
    NodeCacheDel(data, {k \in DOMAIN data : ~NodeCacheCheck(data[k], time)})

-----------------------------------------------------------------------------
(* cache.ts *)

\* withCache, up to the call of the fetcher: the cached value is returned
\* when it is truthy, otherwise the fetcher is invoked.
withCacheLookup(data, time, key) ==
    LET got == NodeCacheGet(data, time, key)
    IN  [cached |-> got.value,
         useCached |-> Truthy(got.value),
         live |-> got.hit,
         data |-> got.data]

withCacheStoreKeepingFirst(data, time, key, result, ttl) ==
    IF key \in DOMAIN data THEN data
    ELSE NodeCacheSet(data, time, key, result, ttl)

\* withCache, the .then callback: stores the result with the ttl given, or
\* with the default when none was given.
withCacheStore(data, time, key, result, ttl) ==
    IF ttl # NoTtl
    THEN NodeCacheSet(data, time, key, result, ttl)
    ELSE NodeCacheSet(data, time, key, result, NoTtl)

withCacheRejectedStoring(data, time, key, error) ==
    [data |-> NodeCacheSet(data, time, key, Undefined, NoTtl), err |-> error]

\* withCache when the fetcher's promise rejects: .then has no rejection
\* handler, so the callback does not run and the rejection is passed on.
withCacheRejected(data, time, key, error) == [data |-> data, err |-> error]

invalidateCacheExactKey(data, pattern) ==
    NodeCacheDel(data, {key \in NodeCacheKeys(data) : key = pattern})

\* invalidateCache
invalidateCache(data, pattern) ==
    LET keys == NodeCacheKeys(data)
        matchingKeys == {key \in keys : Includes(key, pattern)}
    IN  NodeCacheDel(data, matchingKeys)

-----------------------------------------------------------------------------
(* The withCache calls *)

\* A withCache call whose fetcher is in flight: pc is the call's position,
\* company the company whose conversation list the fetcher reads (0: any
\* other fetcher), snap the database version the fetcher has read. The ttl
\* argument is read by the .then callback alone, so the model draws it
\* when the callback runs.
IdleCall ==
    [pc |-> "idle", key |-> <<>>, company |-> 0, snap |-> 0]

\* What the last step did. op names the operation, key the key or pattern
\* it was given; fetched tells whether a withCache call invoked its
\* fetcher, value and err what it returned to its caller (value is
\* Undefined while nothing was returned), raised the error the fetcher
\* rejected with, count the number of keys invalidateCache deleted.
\* For a message of a client, raised is the data received.
\* For the WebSocketManager: id is the connection or the company the
\* operation was about, count the number of connections it removed from
\* the registry, threw whether it raised to its caller. For a route: steps
\* lists, in the order they ran, the calls the handler made in the step.
NoOp ==
    [op |-> "init", key |-> <<>>, fetched |-> FALSE,
     value |-> Undefined, err |-> "", raised |-> "", count |-> 0,
     id |-> 0, threw |-> FALSE, steps |-> <<>>]

Op(name, key) == [NoOp EXCEPT !.op = name, !.key = key]

\* prev keeps, per key, the value the latest completed withCache call
\* returned and the end of the TTL window of the entry it came from. It is
\* forgotten when the entry expires and is deleted, and at every
\* invalidateCache.
Forget(p, data) ==
    [k \in (DOMAIN p) \cap (DOMAIN data) |-> p[k]]

Remember(p, key, value, until) ==
    [k \in (DOMAIN p) \cup {key} |->
        IF k = key THEN [val |-> value, until |-> until] ELSE p[k]]

\* withCache(key, fetcher, ttl), up to the first suspension: either the
\* cached value is returned at once, or the fetcher has been invoked.
\* The slots of calls are interchangeable: a call takes the first idle one.
WithCacheCall(c, key, company) ==
    /\ calls[c].pc = "idle"
    /\ \A d \in CallIds : d < c => calls[d].pc # "idle"
    /\ LET look == withCacheLookup(cache, now, key)
       IN  /\ cache' = look.data
           /\ IF look.useCached
              THEN /\ calls' = calls
                   /\ prev' = Remember(prev, key, look.cached, cache[key].exp)
                   /\ last' = [Op("withCache", key) EXCEPT
                                  !.value = look.cached]
              ELSE /\ calls' = [calls EXCEPT ![c] =
                        [IdleCall EXCEPT !.pc = "fetching", !.key = key,
                                         !.company = company]]
                   /\ prev' = Forget(prev, look.data)
                   /\ last' = [Op("withCache", key) EXCEPT
                                  !.fetched = TRUE]

\* The fetcher's promise fulfils with value: the .then callback stores it
\* and the promise withCache returned fulfils with it.
FetcherFulfilled(c, value, ttl) ==
    LET call == calls[c]
        stored == withCacheStore(cache, now, call.key, value, ttl)
    IN  /\ cache' = stored
        /\ calls' = [calls EXCEPT ![c] = IdleCall]
        /\ prev' = Remember(prev, call.key, value, stored[call.key].exp)
        /\ last' = [Op("fulfilled", call.key) EXCEPT
                       !.fetched = TRUE, !.value = value]

\* The fetcher's promise rejects with error: the promise withCache returned
\* rejects with what the promise chain carries.
FetcherRejected(c, error) ==
    LET call == calls[c]
        chain == withCacheRejected(cache, now, call.key, error)
    IN  /\ cache' = chain.data
        /\ calls' = [calls EXCEPT ![c] = IdleCall]
        /\ prev' = [k \in (DOMAIN prev) \ {call.key} |-> prev[k]]
        /\ last' = [Op("rejected", call.key) EXCEPT
                       !.fetched = TRUE, !.err = chain.err,
                       !.raised = error]

-----------------------------------------------------------------------------
(* The cache used through its exported functions, with any key, any        *)
(* fetcher and any ttl                                                     *)

ApiWithCache ==
    \E c \in CallIds, key \in CacheKeys :
        /\ WithCacheCall(c, key, 0)
        /\ UNCHANGED <<clientVars, now, routeVars, wsVars>>

ApiFetcherFulfils ==
    \E c \in CallIds, value \in FetchValues, ttl \in TtlArgs :
        /\ calls[c].pc = "fetching"
        /\ calls[c].company = 0
        /\ FetcherFulfilled(c, value, ttl)
        /\ UNCHANGED <<clientVars, now, routeVars, wsVars>>

ApiFetcherRejects ==
    \E c \in CallIds, error \in FetchErrors :
        /\ calls[c].pc = "fetching"
        /\ calls[c].company = 0
        /\ FetcherRejected(c, error)
        /\ UNCHANGED <<clientVars, now, routeVars, wsVars>>

ApiInvalidateCache ==
    \E pattern \in Patterns :
        /\ cache' = invalidateCache(cache, pattern)
        /\ prev' = <<>>
        /\ last' = [Op("invalidateCache", pattern) EXCEPT
                       !.count = Cardinality((DOMAIN cache) \ (DOMAIN cache'))]
        /\ UNCHANGED <<clientVars, now, calls, routeVars, wsVars>>

\* Time passes.
Tick ==
    \E d \in {ConversationsTtl} :
        /\ now + d <= MaxTime
        /\ now' = now + d
        /\ last' = Op("tick", <<>>)
        /\ UNCHANGED <<clientVars, cacheVars, routeVars, wsVars>>

\* node-cache's periodic check (checkperiod: 60).
CheckPeriod ==
    /\ \E k \in DOMAIN cache : ~NodeCacheCheck(cache[k], now)
    /\ cache' = NodeCacheCheckData(cache, now)
    /\ prev' = Forget(prev, cache')
    /\ last' = Op("checkData", <<>>)
    /\ UNCHANGED <<clientVars, now, calls, routeVars, wsVars>>

\* A request that writes: its position, its user's company and, once the
\* storage call has written, the database version it wrote. For a request
\* that names a conversation by id: owner is the company the conversation
\* belongs to, status the status the request body sets.
IdlePost ==
    [pc |-> "idle", company |-> 0, ver |-> 0, owner |-> 0, status |-> ""]

\* A connection before the client has connected. The ghost owner is the
\* company of the user who opened the connection (0: not told).
NoConn ==
    [readyState |-> "NONE", pc |-> "none", token |-> "", userId |-> "",
     companyId |-> 0, isAlive |-> "undefined", listening |-> FALSE,
     broken |-> FALSE, probe |-> "none", owner |-> 0]

-----------------------------------------------------------------------------
(* The client: the values of the useWebSocket hook and of apiRequest *)

\* The WebSocket objects the hook creates are numbered in the order of
\* their creation.
SockIds == 1..MaxSockets

\* A WebSocket object not created yet. manual tells whether the hook has
\* called close(1000) on it, code the code its close event will carry
\* once that is settled (0: not settled).
NoSock == [readyState |-> "NONE", manual |-> FALSE, code |-> 0]

\* Math.pow(2, n) for a natural number n
RECURSIVE Pow2(_)
Pow2(n) == IF n = 0 THEN 1 ELSE 2 * Pow2(n - 1)

\* The delays, in seconds, of the timers onclose sets.
Delays == {Pow2(n) : n \in 0..(maxReconnectAttempts - 1)}

\* The hook before it is mounted: ws.current is null (0),
\* reconnectAttempts.current is 0 and no timer is pending; timers counts
\* the pending timers of each delay. The ghost enables counts the runs of
\* the effect with enabled true, the ghost disconnected tells whether
\* disconnect() was the hook's last call of connect or disconnect.
UnmountedHook ==
    [enabled |-> FALSE, wsCurrent |-> 0, reconnectAttempts |-> 0,
     socks |-> [s \in SockIds |-> NoSock], timers |-> [d \in Delays |-> 0],
     enables |-> 0, disconnected |-> FALSE]

\* apiRequest before it is called: retries is the argument of the call in
\* progress, given the one of the outermost call, attempts the number of
\* fetch calls made, waits the delays awaited, in milliseconds, error the
\* error caught last.
IdleRequest ==
    [pc |-> "idle", retries |-> 0, given |-> 0, attempts |-> 0,
     waits |-> <<>>, error |-> [name |-> "", message |-> <<>>]]

\* The users are numbered. No row of the users table.
UserIds == {1, 2, 3}

NoRow == [exists |-> FALSE, companyId |-> 0, role |-> ""]

UserRow(companyId, role) ==
    [exists |-> TRUE, companyId |-> companyId, role |-> role]

\* The users table at the start: the admin of company 1 and an agent of
\* company 2.
InitialUsers ==
    [id \in UserIds |->
        CASE id = 1 -> UserRow(1, "company_admin")
          [] id = 2 -> UserRow(2, "agent")
          [] OTHER -> NoRow]

Init ==
    /\ cache = <<>>
    /\ now = 1
    /\ calls = [c \in CallIds |-> IdleCall]
    /\ prev = <<>>
    /\ db = [T \in Companies |-> 0]
    /\ posts = [p \in PostIds |-> IdlePost]
    /\ synced = [T \in Companies |-> 0]
    /\ users = InitialUsers
    /\ clients = <<>>
    /\ conns = [c \in ConnIds |-> NoConn]
    /\ wssClients = {}
    /\ sent = [c \in ConnIds |-> <<>>]
    /\ published = <<>>
    /\ hook = UnmountedHook
    /\ api = IdleRequest
    /\ last = NoOp

SpecCache ==
    /\ Init
    /\ [][
        \/ ApiWithCache
        \/ ApiFetcherFulfils
        \/ ApiFetcherRejects
        \/ ApiInvalidateCache
        \/ Tick
        \/ CheckPeriod
       ]_vars

-----------------------------------------------------------------------------
(* websocket.ts: the registry *)

\* user.companyId null, ws.companyId undefined
Null == 0

\* `company_${companyId}`
companyKey(companyId) ==
    <<"c", "o", "m", "p", "a", "n", "y", "_">> \o
        (IF companyId = Null THEN <<"n", "u", "l", "l">>
         ELSE NumberToString(companyId))

\* Array.prototype.indexOf, counting from 0; -1 when absent.
indexOf(list, c) ==
    IF \E i \in 1..Len(list) : list[i] = c
    THEN (CHOOSE i \in 1..Len(list) :
            list[i] = c /\ \A j \in 1..(i - 1) : list[j] # c) - 1
    ELSE -1

\* Array.prototype.splice(start, 1): a negative start counts from the end.
splice(list, start) ==
    LET from == IF start < 0
                THEN (IF Len(list) + start < 0 THEN 0 ELSE Len(list) + start)
                ELSE start
    IN  IF from >= Len(list) THEN list
        ELSE SubSeq(list, 1, from) \o SubSeq(list, from + 2, Len(list))

MapSet(map, key, value) ==
    [k \in (DOMAIN map) \cup {key} |-> IF k = key THEN value ELSE map[k]]

MapDelete(map, key) == [k \in (DOMAIN map) \ {key} |-> map[k]]

\* handleConnection, "Add to company group"
addToCompanyGroup(map, companyKeyStr, c) ==
    LET made == IF companyKeyStr \notin DOMAIN map
                THEN MapSet(map, companyKeyStr, <<>>)
                ELSE map
    IN  MapSet(made, companyKeyStr, Append(made[companyKeyStr], c))

removeClientSplicingAlways(map, companyId, c) ==
    IF companyId # Null /\ companyKey(companyId) \in DOMAIN map
    THEN LET list == splice(map[companyKey(companyId)],
                            indexOf(map[companyKey(companyId)], c))
         IN  IF Len(list) = 0
             THEN MapDelete(map, companyKey(companyId))
             ELSE MapSet(map, companyKey(companyId), list)
    ELSE map

removeClientKeepingGroup(map, companyId, c) ==
    IF companyId # Null /\ companyKey(companyId) \in DOMAIN map
    THEN LET index == indexOf(map[companyKey(companyId)], c)
         IN  MapSet(map, companyKey(companyId),
                    IF index > -1
                    THEN splice(map[companyKey(companyId)], index)
                    ELSE map[companyKey(companyId)])
    ELSE map

\* removeClient(ws), with ws.companyId passed as companyId
removeClient(map, companyId, c) ==
    IF companyId # Null
    THEN LET companyKeyStr == companyKey(companyId)
         IN  IF companyKeyStr \in DOMAIN map
             THEN LET index == indexOf(map[companyKeyStr], c)
                      list == IF index > -1
                              THEN splice(map[companyKeyStr], index)
                              ELSE map[companyKeyStr]
                  IN  IF Len(list) = 0
                      THEN MapDelete(map, companyKeyStr)
                      ELSE MapSet(map, companyKeyStr, list)
             ELSE map
    ELSE map

\* The connections in the registry, and those under one key.
Members(map, key) ==
    IF key \in DOMAIN map
    THEN {map[key][i] : i \in 1..Len(map[key])}
    ELSE {}

Registered(map) == UNION {Members(map, key) : key \in DOMAIN map}

-----------------------------------------------------------------------------
(* websocket.ts: the sockets *)

\* ws.close(code, reason): starts the closing handshake of an open socket.
wsClose(ws) ==
    IF ws.readyState = "OPEN" THEN [ws EXCEPT !.readyState = "CLOSING"] ELSE ws

\* ws.terminate(): destroys the socket; the close event follows.
wsTerminate(ws) ==
    IF ws.readyState = "CLOSED" THEN ws ELSE [ws EXCEPT !.readyState = "CLOSING"]

wsSendPrepending(acc, c, messageStr) ==
    [acc EXCEPT !.sent[c] = <<messageStr>> \o @]

wsSendThrowing(acc, c, messageStr) ==
    IF acc.conns[c].broken
    THEN [acc EXCEPT !.threw = TRUE]
    ELSE [acc EXCEPT !.sent[c] = Append(@, messageStr)]

\* client.send(messageStr) on an open socket: the frame is queued on the
\* socket and send returns. When the transport is broken the write fails
\* later, as an error event of the socket; send itself does not throw.
\* A frame sent on a broken connection does not reach the peer.
wsSend(acc, c, messageStr) ==
    [acc EXCEPT !.sent[c] = Append(@, messageStr)]

RECURSIVE forEachClientAnyState(_, _, _, _)
forEachClientAnyState(acc, list, i, messageStr) ==
    IF i > Len(list) \/ acc.threw THEN acc
    ELSE forEachClientAnyState(wsSend(acc, list[i], messageStr),
                               list, i + 1, messageStr)

\* clients.forEach(client => ...), from the i-th client on; an exception
\* ends the loop.
RECURSIVE forEachClient(_, _, _, _)
forEachClient(acc, list, i, messageStr) ==
    IF i > Len(list) \/ acc.threw THEN acc
    ELSE forEachClient(
            IF acc.conns[list[i]].readyState = "OPEN"
            THEN wsSend(acc, list[i], messageStr)
            ELSE acc,
            list, i + 1, messageStr)

\* JSON.stringify(message): one string for all the clients; the frame is
\* kept as the record it encodes.
JSONstringify(message) == message

broadcastToEveryGroup(map, cn, snt, companyId, message) ==
    LET all == [i \in 1..Cardinality(Registered(map)) |->
                  CHOOSE c \in Registered(map) :
                      Cardinality({d \in Registered(map) : d < c}) = i - 1]
    IN  forEachClient([sent |-> snt, conns |-> cn, threw |-> FALSE],
                      all, 1, JSONstringify(message))

\* broadcastToCompany(companyId, message)
broadcastToCompany(map, cn, snt, companyId, message) ==
    LET companyKeyStr == companyKey(companyId)
    IN  IF companyKeyStr \in DOMAIN map
        THEN forEachClient([sent |-> snt, conns |-> cn, threw |-> FALSE],
                           map[companyKeyStr], 1, JSONstringify(message))
        ELSE [sent |-> snt, conns |-> cn, threw |-> FALSE]

\* The message notifyNewMessage builds; message stands for the row.
NewMessageEvent(conversationId, message, time) ==
    [type |-> "new_message", conversationId |-> conversationId,
     message |-> message, timestamp |-> time]

\* The message notifyConversationUpdate builds.
ConversationUpdateEvent(conversationId, status, time) ==
    [type |-> "conversation_update", conversationId |-> conversationId,
     status |-> status, timestamp |-> time]

\* notifyConversationUpdate(companyId, conversationId, status)
notifyConversationUpdate(map, cn, snt, companyId, id, status, time) ==
    broadcastToCompany(map, cn, snt, companyId,
                       ConversationUpdateEvent(id, status, time))

\* notifyNewMessage(companyId, conversationId, message)
notifyNewMessage(map, cn, snt, companyId, conversationId, message, time) ==
    broadcastToCompany(map, cn, snt, companyId,
                       NewMessageEvent(conversationId, message, time))

heartbeatWithoutRemove(st, c) ==
    IF st.conns[c].isAlive = "false"
    THEN [st EXCEPT !.conns[c] =
            [wsTerminate(@) EXCEPT !.probe = "timeout"]]
    ELSE [st EXCEPT !.conns[c].isAlive = "false",
                    !.conns[c].probe =
                        IF st.conns[c].readyState = "OPEN" THEN "sent" ELSE @]

heartbeatTerminatingAnswered(st, c) ==
    [clients |-> removeClient(st.clients, st.conns[c].companyId, c),
     conns |-> [st.conns EXCEPT ![c] =
                   [wsTerminate(@) EXCEPT !.probe = "timeout"]]]

\* setupHeartbeat, the callback for one ws of wss.clients. The ghost probe
\* tells whether a ping was sent and is not answered yet ("sent"), or the
\* connection was terminated for not answering ("timeout").
heartbeat(st, c) ==
    IF st.conns[c].isAlive = "false"
    THEN [clients |-> removeClient(st.clients, st.conns[c].companyId, c),
          conns |-> [st.conns EXCEPT ![c] =
                        [wsTerminate(@) EXCEPT !.probe = "timeout"]]]
    ELSE [st EXCEPT !.conns[c].isAlive = "false",
                    !.conns[c].probe =
                        IF st.conns[c].readyState = "OPEN" THEN "sent" ELSE @]

\* this.wss.clients.forEach(...), in the order the connections were made.
RECURSIVE heartbeatFrom(_, _, _)
heartbeatFrom(st, tracked, c) ==
    IF c > MaxConns THEN st
    ELSE heartbeatFrom(IF c \in tracked THEN heartbeat(st, c) ELSE st,
                       tracked, c + 1)

-----------------------------------------------------------------------------
(* websocket.ts: the events of the WebSocketManager *)

ConversationIds == {42}

\* The status a conversation is given.
Statuses == {"closed"}

\* The companies the routes publish to.
WsCompanies == {1, 2}

WsOp(name, id, count) ==
    [NoOp EXCEPT !.op = name, !.id = id, !.count = count]

\* The number of connections a step removed from the registry.
Removed(before, after) ==
    Cardinality(Registered(before) \ Registered(after))

\* handleConnection of the version that accepts every connection, for a
\* connection opened by a user of company owner: it runs to its end
\* without suspension and reads nothing of the request. Connections are
\* numbered in the order they are made.
handleConnectionAnonymous(c, owner) ==
    /\ conns[c].readyState = "NONE"
    /\ \A d \in ConnIds : d < c => conns[d].readyState # "NONE"
    /\ wssClients' = wssClients \cup {c}
    /\ conns' = [conns EXCEPT ![c] =
            [NoConn EXCEPT !.readyState = "OPEN", !.pc = "done",
                           !.userId = "anonymous", !.companyId = 1,
                           !.isAlive = "true", !.listening = TRUE,
                           !.owner = owner]]
    /\ clients' = addToCompanyGroup(clients, companyKey(1), c)
    /\ last' = WsOp("connect", 0, 0)

\* A client connects; who the user is is not told.
ConnectAnonymous ==
    \E c \in ConnIds :
        /\ handleConnectionAnonymous(c, Null)
        /\ UNCHANGED <<clientVars, now, cacheVars, routeVars, sent, published>>

\* A user of a company connects.
ConnectAnonymousUser ==
    \E c \in ConnIds, owner \in WsCompanies :
        /\ handleConnectionAnonymous(c, owner)
        /\ UNCHANGED <<clientVars, now, cacheVars, routeVars, sent, published>>

\* ws.on('pong')
Pong ==
    \E c \in ConnIds :
        /\ conns[c].readyState = "OPEN"
        /\ conns[c].listening
        /\ ~conns[c].broken
        /\ conns' = [conns EXCEPT
                ![c].isAlive = "true",
                ![c].probe = "none"]
        /\ last' = WsOp("pong", 0, 0)
        /\ UNCHANGED <<clientVars, now, cacheVars, routeVars, clients, wssClients,
                       sent, published>>

\* The peer starts the closing handshake.
PeerCloses ==
    \E c \in ConnIds :
        /\ conns[c].readyState = "OPEN"
        /\ conns' = [conns EXCEPT ![c].readyState = "CLOSING"]
        /\ last' = WsOp("closing", 0, 0)
        /\ UNCHANGED <<clientVars, now, cacheVars, routeVars, clients, wssClients,
                       sent, published>>

\* A closed socket: no event of it follows, so nothing reads its fields
\* but readyState any more, except a handleConnection that still awaits
\* the user.
Closed(ws) ==
    IF ws.pc = "lookup"
    THEN [NoConn EXCEPT !.readyState = "CLOSED", !.pc = "lookup",
                        !.token = ws.token]
    ELSE [NoConn EXCEPT !.readyState = "CLOSED", !.pc = "done"]

\* The socket has closed: the server forgets the connection and the
\* 'close' listener, when attached, runs removeClient.
SocketCloses ==
    \E c \in ConnIds :
        /\ conns[c].readyState \in {"OPEN", "CLOSING"}
        /\ conns' = [conns EXCEPT ![c] = Closed(@)]
        /\ wssClients' = wssClients \ {c}
        /\ clients' = IF conns[c].listening
                      THEN removeClient(clients, conns[c].companyId, c)
                      ELSE clients
        /\ last' = WsOp("close", c, Removed(clients, clients'))
        /\ UNCHANGED <<clientVars, now, cacheVars, routeVars, sent, published>>

\* The transport of an open connection fails; the server has not noticed.
TransportBreaks ==
    \E c \in ConnIds :
        /\ conns[c].readyState = "OPEN"
        /\ conns[c].listening
        /\ ~conns[c].broken
        /\ conns' = [conns EXCEPT ![c].broken = TRUE]
        /\ last' = WsOp("break", 0, 0)
        /\ UNCHANGED <<clientVars, now, cacheVars, routeVars, clients, wssClients,
                       sent, published>>

\* The failure surfaces as the socket's 'error' event: the 'error'
\* listener runs removeClient; the close event follows.
ErrorEvent ==
    \E c \in ConnIds :
        /\ conns[c].readyState = "OPEN"
        /\ conns[c].listening
        /\ conns[c].broken
        /\ conns' = [conns EXCEPT ![c].readyState = "CLOSING"]
        /\ clients' = removeClient(clients, conns[c].companyId, c)
        /\ last' = WsOp("error", c, Removed(clients, clients'))
        /\ UNCHANGED <<clientVars, now, cacheVars, routeVars, wssClients, sent, published>>

\* The setInterval callback of setupHeartbeat.
HeartbeatSweep ==
    LET swept == heartbeatFrom([clients |-> clients, conns |-> conns],
                               wssClients, 1)
    IN  /\ wssClients # {}
        /\ clients' = swept.clients
        /\ conns' = swept.conns
        /\ last' = WsOp("sweep", 0, Removed(clients, clients'))
        /\ UNCHANGED <<clientVars, now, cacheVars, routeVars, wssClients, sent, published>>

\* wsManager.notifyNewMessage(companyId, conversationId, message), called
\* by a route.
ApiNotifyNewMessage ==
    \E companyId \in WsCompanies, conversationId \in ConversationIds :
        /\ Len(published) < MaxPublish
        /\ LET message == Len(published) + 1
               done == notifyNewMessage(clients, conns, sent, companyId,
                                        conversationId, message, now)
           IN  /\ sent' = done.sent
               /\ conns' = done.conns
               /\ published' = Append(published,
                    [companyId |-> companyId,
                     event |-> NewMessageEvent(conversationId, message, now)])
               /\ last' = [WsOp("broadcast", companyId, 0) EXCEPT
                              !.threw = done.threw]
        /\ UNCHANGED <<clientVars, now, cacheVars, routeVars, clients, wssClients>>

\* The data of a message a client sends: not JSON, the JSON null, an
\* object without type, or an object with the type named.
InboundData ==
    {"not json", "null", "{}", "bogus", "ping", "join_conversation",
     "leave_conversation"}

\* JSON.parse(data.toString()): it throws, or returns null or an object.
JSONparse(data) ==
    [threw |-> data = "not json",
     isNull |-> data = "null",
     type |-> IF data \in {"not json", "null", "{}"} THEN "undefined"
              ELSE data]

IsPong(frame) == frame.type = "pong"

\* handleMessage(ws, message): reading message.type of null throws.
handleMessage(acc, c, message, time) ==
    IF message.isNull THEN [acc EXCEPT !.threw = TRUE]
    ELSE CASE message.type = "ping" ->
                 wsSend(acc, c, JSONstringify([type |-> "pong",
                                               timestamp |-> time]))
           [] message.type = "join_conversation" -> acc
           [] message.type = "leave_conversation" -> acc
           [] OTHER -> acc

onMessageWithoutCatch(acc, c, data, time) ==
    LET message == JSONparse(data)
    IN  IF message.threw THEN [acc EXCEPT !.threw = TRUE]
        ELSE handleMessage(acc, c, message, time)

\* ws.on('message', ...): what JSON.parse or handleMessage throw is caught
\* and logged.
onMessage(acc, c, data, time) ==
    LET message == JSONparse(data)
    IN  IF message.threw THEN acc
        ELSE LET handled == handleMessage(acc, c, message, time)
             IN  IF handled.threw THEN acc ELSE handled

\* A message of the client arrives on an open connection.
ClientMessage ==
    \E c \in ConnIds, data \in InboundData :
        /\ conns[c].readyState = "OPEN"
        /\ conns[c].listening
        /\ data = "ping" => Len(SelectSeq(sent[c], IsPong)) < MaxPongs
        /\ LET done == onMessage([sent |-> sent, conns |-> conns,
                                  threw |-> FALSE], c, data, now)
           IN  /\ sent' = done.sent
               /\ conns' = done.conns
               /\ last' = [WsOp("message", c, 0) EXCEPT
                              !.raised = data, !.threw = done.threw]
        /\ UNCHANGED <<clientVars, now, cacheVars, routeVars, clients, wssClients,
                       published>>

\* wsManager.notifyConversationUpdate(companyId, conversationId, status),
\* called by the application.
ApiNotifyConversationUpdate ==
    \E companyId \in WsCompanies, conversationId \in ConversationIds,
       status \in Statuses :
        /\ Len(published) < MaxEvents
        /\ LET done == notifyConversationUpdate(clients, conns, sent,
                            companyId, conversationId, status, now)
           IN  /\ sent' = done.sent
               /\ conns' = done.conns
               /\ published' = Append(published,
                    [companyId |-> companyId,
                     event |-> ConversationUpdateEvent(conversationId,
                                                       status, now)])
               /\ last' = [WsOp("broadcast", companyId, 0) EXCEPT
                              !.threw = done.threw]
        /\ UNCHANGED <<clientVars, now, cacheVars, routeVars, clients, wssClients>>

\* validateToken(token)
validateToken(token) == token

\* What storage.getUser(userId) resolves to: no user, or the user's row,
\* of which the company matters; a user may have no company.
NoUser == [found |-> FALSE, companyId |-> Null]
UserRows == {NoUser} \cup {[found |-> TRUE, companyId |-> T] :
                               T \in WsCompanies \cup {Null}}

\* A client connects, handleConnection of the version that authenticates,
\* up to its first suspension: without token the connection is closed,
\* otherwise validateToken has returned and storage.getUser is awaited.
ConnectWithToken ==
    \E c \in ConnIds, token \in {"", "tok"} :
        /\ conns[c].readyState = "NONE"
        /\ \A d \in ConnIds : d < c => conns[d].readyState # "NONE"
        /\ wssClients' = wssClients \cup {c}
        /\ conns' = [conns EXCEPT ![c] =
                IF token = "" \/ validateToken(token) = ""
                THEN wsClose([NoConn EXCEPT !.readyState = "OPEN",
                                            !.pc = "done"])
                ELSE [NoConn EXCEPT !.readyState = "OPEN", !.pc = "lookup",
                                    !.token = validateToken(token)]]
        /\ last' = WsOp("connect", 0, 0)
        /\ UNCHANGED <<clientVars, now, cacheVars, routeVars, clients, sent, published>>

\* storage.getUser(userId) returns to handleConnection: it throws, or
\* finds no user, or finds the user; then the connection is registered in
\* the group of the user's company and the listeners are attached.
UserLookupReturns ==
    \E c \in ConnIds, throws \in BOOLEAN, user \in UserRows :
        /\ conns[c].pc = "lookup"
        /\ throws => user = NoUser
        /\ IF throws \/ ~user.found
           THEN /\ conns' = [conns EXCEPT ![c] =
                        [wsClose(@) EXCEPT !.pc = "done", !.token = ""]]
                /\ clients' = clients
           ELSE /\ conns' = [conns EXCEPT ![c] =
                        [@ EXCEPT !.pc = "done", !.token = "",
                                  !.userId = conns[c].token,
                                  !.companyId = user.companyId,
                                  !.owner = user.companyId,
                                  !.isAlive = "true",
                                  !.listening = TRUE]]
                /\ clients' = addToCompanyGroup(
                        clients, companyKey(user.companyId), c)
        /\ last' = WsOp("lookup", 0, 0)
        /\ UNCHANGED <<clientVars, now, cacheVars, routeVars, wssClients, sent, published>>

SpecAnonymous ==
    /\ Init
    /\ [][
        \/ ConnectAnonymous
        \/ Pong
        \/ PeerCloses
        \/ SocketCloses
        \/ TransportBreaks
        \/ ErrorEvent
        \/ HeartbeatSweep
        \/ ApiNotifyNewMessage
       ]_vars

SpecToken ==
    /\ Init
    /\ [][
        \/ ConnectWithToken
        \/ UserLookupReturns
        \/ PeerCloses
        \/ SocketCloses
        \/ ApiNotifyNewMessage
       ]_vars

\* The messages of the clients, with the heartbeat.
SpecInbound ==
    /\ Init
    /\ [][
        \/ ConnectAnonymous
        \/ ClientMessage
        \/ Pong
        \/ PeerCloses
        \/ SocketCloses
        \/ HeartbeatSweep
       ]_vars

\* The events of both kinds, published to connections that come and go.
SpecEvents ==
    /\ Init
    /\ [][
        \/ ConnectAnonymous
        \/ PeerCloses
        \/ SocketCloses
        \/ ApiNotifyNewMessage
        \/ ApiNotifyConversationUpdate
       ]_vars

\* The version that accepts every connection, used by users of several
\* companies.
SpecAnonymousUsers ==
    /\ Init
    /\ [][
        \/ ConnectAnonymousUser
        \/ PeerCloses
        \/ SocketCloses
        \/ ApiNotifyNewMessage
       ]_vars

-----------------------------------------------------------------------------
(* The routes GET /api/conversations and POST /api/messages *)

\* The companies of the users who call the routes.
RouteCompanies == {1, 12}

\* GET /api/conversations by a user of company T, up to the first
\* suspension of withCache: the cached list is the response, or
\* storage.getConversationsByCompany has been called.
GetConversations ==
    \E c \in CallIds, T \in RouteCompanies :
        /\ WithCacheCall(c, conversationsKey(T), T)
        /\ UNCHANGED <<clientVars, now, routeVars, wsVars>>

\* The query of getConversationsByCompany runs in the database.
ConversationsQueryRuns ==
    \E c \in CallIds :
        /\ calls[c].pc = "fetching"
        /\ calls[c].company # 0
        /\ calls' = [calls EXCEPT ![c].pc = "queried",
                                  ![c].snap = db[calls[c].company]]
        /\ last' = Op("query", calls[c].key)
        /\ UNCHANGED <<clientVars, cache, now, prev, routeVars, wsVars>>

\* The query's result arrives: withCache stores it for 60 seconds and the
\* route responds with it.
ConversationsQueryReturns ==
    \E c \in CallIds :
        /\ calls[c].pc = "queried"
        /\ FetcherFulfilled(c, Arr(calls[c].snap), ConversationsTtl)
        /\ UNCHANGED <<clientVars, now, routeVars, wsVars>>

\* The query fails: withCache rejects and the route responds 500.
ConversationsQueryFails ==
    \E c \in CallIds, error \in FetchErrors :
        /\ calls[c].pc = "fetching"
        /\ calls[c].company # 0
        /\ FetcherRejected(c, error)
        /\ UNCHANGED <<clientVars, now, routeVars, wsVars>>

\* POST /api/messages by a user of company T, for a conversation of the
\* user's company, passes validation and createMessage inserts the
\* message row.
PostMessageInserts ==
    \E p \in PostIds, T \in RouteCompanies :
        /\ posts[p].pc = "idle"
        /\ \A q \in PostIds : q < p => posts[q].pc # "idle"
        /\ db' = [db EXCEPT ![T] = @ + 1]
        /\ posts' = [posts EXCEPT ![p] =
                [IdlePost EXCEPT !.pc = "inserted", !.company = T,
                                 !.owner = T]]
        /\ last' = Op("insert", conversationsKey(T))
        /\ UNCHANGED <<clientVars, cacheVars, now, synced, users, wsVars>>

\* POST /api/messages by a user of company caller with the id of a
\* conversation of company owner in the body: the id is not looked up,
\* createMessage inserts the message row.
PostMessageInsertsInto ==
    \E p \in PostIds, caller \in RouteCompanies, owner \in RouteCompanies :
        /\ posts[p].pc = "idle"
        /\ \A q \in PostIds : q < p => posts[q].pc # "idle"
        /\ db' = [db EXCEPT ![owner] = @ + 1]
        /\ posts' = [posts EXCEPT ![p] =
                [IdlePost EXCEPT !.pc = "inserted", !.company = caller,
                                 !.owner = owner]]
        /\ last' = Op("insert", conversationsKey(owner))
        /\ UNCHANGED <<clientVars, cacheVars, now, synced, users, wsVars>>

\* createMessage updates lastMessageAt of the conversation.
PostMessageUpdates ==
    \E p \in PostIds :
        /\ posts[p].pc = "inserted"
        /\ db' = [db EXCEPT ![posts[p].owner] = @ + 1]
        /\ posts' = [posts EXCEPT ![p].pc = "updated",
                                  ![p].ver = db'[posts[p].owner]]
        /\ last' = Op("update", conversationsKey(posts[p].owner))
        /\ UNCHANGED <<clientVars, cacheVars, now, synced, users, wsVars>>

\* The update of createMessage fails: the route responds 500.
PostMessageFails ==
    \E p \in PostIds :
        /\ posts[p].pc = "inserted"
        /\ posts' = [posts EXCEPT ![p] = [IdlePost EXCEPT !.pc = "done"]]
        /\ last' = [Op("post", conversationsKey(posts[p].company)) EXCEPT
                       !.id = p,
                       !.threw = TRUE,
                       !.steps = <<"res.status(500)">>]
        /\ UNCHANGED <<clientVars, cacheVars, now, db, synced, users, wsVars>>

postMessageRespondingFirst(st, T, conversationId, message, time) ==
    LET done == notifyNewMessage(st.clients, st.conns, st.sent, T,
                                 conversationId, message, time)
    IN  [st EXCEPT
            !.steps = <<"res.json", "notifyNewMessage", "invalidateCache">>,
            !.sent = done.sent,
            !.conns = done.conns,
            !.published = Append(@,
                [companyId |-> T,
                 event |-> NewMessageEvent(conversationId, message, time)]),
            !.cache = invalidateCache(@, conversationsKey(T))]

\* POST /api/messages after createMessage has returned: invalidateCache,
\* then notifyNewMessage, then res.json; the catch block responds 500 when
\* one of them raised.
postMessage(st, T, conversationId, message, time) ==
    LET s1 == [st EXCEPT
                  !.cache = invalidateCache(@, conversationsKey(T)),
                  !.steps = Append(@, "invalidateCache")]
        done == notifyNewMessage(s1.clients, s1.conns, s1.sent, T,
                                 conversationId, message, time)
        s2 == [s1 EXCEPT
                  !.sent = done.sent,
                  !.conns = done.conns,
                  !.published = Append(@,
                      [companyId |-> T,
                       event |-> NewMessageEvent(conversationId,
                                                 message, time)]),
                  !.threw = done.threw,
                  !.steps = Append(@, "notifyNewMessage")]
    IN  IF s2.threw
        THEN [s2 EXCEPT !.steps = Append(@, "res.status(500)")]
        ELSE [s2 EXCEPT !.steps = Append(@, "res.json")]

\* createMessage has returned: the route invalidates the cache, notifies
\* the company's connections and responds (500 if that raised).
PostMessageCompletes ==
    \E p \in PostIds, conversationId \in ConversationIds :
        /\ posts[p].pc = "updated"
        /\ LET T == posts[p].company
               done == postMessage(
                          [cache |-> cache, clients |-> clients,
                           conns |-> conns, sent |-> sent,
                           published |-> published, threw |-> FALSE,
                           steps |-> <<>>],
                          T, conversationId, p, now)
           IN  /\ cache' = done.cache
               /\ prev' = <<>>
               /\ synced' = [synced EXCEPT ![T] =
                                IF posts[p].owner = T /\ posts[p].ver > @
                                THEN posts[p].ver ELSE @]
               /\ sent' = done.sent
               /\ conns' = done.conns
               /\ published' = done.published
               /\ last' = [Op("post", conversationsKey(T)) EXCEPT
                              !.id = p,
                              !.threw = done.threw,
                              !.steps = done.steps,
                              !.count = Cardinality((DOMAIN cache)
                                                    \ (DOMAIN cache'))]
        /\ posts' = [posts EXCEPT ![p] = [IdlePost EXCEPT !.pc = "done"]]
        /\ UNCHANGED <<clientVars, now, calls, db, users, clients, wssClients>>

SpecRoutes ==
    /\ Init
    /\ [][
        \/ GetConversations
        \/ ConversationsQueryRuns
        \/ ConversationsQueryReturns
        \/ ConversationsQueryFails
        \/ PostMessageInserts
        \/ PostMessageUpdates
        \/ PostMessageFails
        \/ PostMessageCompletes
        \/ Tick
        \/ CheckPeriod
       ]_vars

\* A route that names a conversation by id calls its storage function:
\* the row is written whatever the company of the caller. step names the
\* position the request is left in.
storageWritesById(p, caller, owner, status, step) ==
    /\ posts[p].pc = "idle"
    /\ \A q \in PostIds : q < p => posts[q].pc # "idle"
    /\ db' = [db EXCEPT ![owner] = @ + 1]
    /\ posts' = [posts EXCEPT ![p] =
            [IdlePost EXCEPT !.pc = step, !.company = caller,
                             !.owner = owner, !.ver = db'[owner],
                             !.status = status]]
    /\ last' = [Op(step, conversationsKey(owner)) EXCEPT !.id = p]

\* The storage function has returned and the route responds with
\* res.json: it makes no other call.
respondsById(p, step, route) ==
    /\ posts[p].pc = step
    /\ posts' = [posts EXCEPT ![p] = [IdlePost EXCEPT !.pc = "done"]]
    /\ last' = [Op(route, conversationsKey(posts[p].owner)) EXCEPT
                   !.id = p, !.steps = <<"res.json">>]

\* POST /api/conversations: storage.createConversation inserts the row.
PostConversationInserts ==
    \E p \in PostIds, caller \in RouteCompanies, owner \in RouteCompanies :
        /\ storageWritesById(p, caller, owner, "", "createConversation")
        /\ UNCHANGED <<clientVars, cacheVars, now, synced, users, wsVars>>

PostConversationResponds ==
    \E p \in PostIds :
        /\ respondsById(p, "createConversation", "postConversation")
        /\ UNCHANGED <<clientVars, cacheVars, now, db, synced, users, wsVars>>

\* PUT /api/conversations/:id: storage.updateConversation updates the row.
PutConversationUpdates ==
    \E p \in PostIds, caller \in RouteCompanies, owner \in RouteCompanies,
       status \in Statuses :
        /\ storageWritesById(p, caller, owner, status, "updateConversation")
        /\ UNCHANGED <<clientVars, cacheVars, now, synced, users, wsVars>>

PutConversationResponds ==
    \E p \in PostIds :
        /\ respondsById(p, "updateConversation", "putConversation")
        /\ UNCHANGED <<clientVars, cacheVars, now, db, synced, users, wsVars>>

\* PUT /api/conversations/:id/mark-read: storage.markMessagesAsRead
\* updates the messages of the conversation.
MarkReadUpdates ==
    \E p \in PostIds, caller \in RouteCompanies, owner \in RouteCompanies :
        /\ storageWritesById(p, caller, owner, "", "markMessagesAsRead")
        /\ UNCHANGED <<clientVars, cacheVars, now, synced, users, wsVars>>

MarkReadResponds ==
    \E p \in PostIds :
        /\ respondsById(p, "markMessagesAsRead", "markRead")
        /\ UNCHANGED <<clientVars, cacheVars, now, db, synced, users, wsVars>>

\* GET /api/conversations/:id by a user of company caller, for a
\* conversation of company owner: the row found is the response. In last,
\* id is the caller's company and count the company of the row.
GetConversationById ==
    \E caller \in RouteCompanies, owner \in RouteCompanies :
        /\ last' = [Op("getConversation", conversationsKey(owner)) EXCEPT
                       !.id = caller, !.count = owner,
                       !.value = Arr(db[owner]),
                       !.steps = <<"res.json">>]
        /\ UNCHANGED <<clientVars, cacheVars, now, routeVars, wsVars>>

\* The routes that read and write conversations, while no cache entry
\* expires and no storage call fails.
SpecWrites ==
    /\ Init
    /\ [][
        \/ GetConversations
        \/ ConversationsQueryRuns
        \/ ConversationsQueryReturns
        \/ GetConversationById
        \/ PostConversationInserts
        \/ PostConversationResponds
        \/ PutConversationUpdates
        \/ PutConversationResponds
        \/ MarkReadUpdates
        \/ MarkReadResponds
        \/ PostMessageInserts
        \/ PostMessageUpdates
        \/ PostMessageCompletes
       ]_vars

-----------------------------------------------------------------------------
(* The routes /api/admin/users *)

Roles == {"agent", "company_admin", "super_admin"}

AdminRoles == {"super_admin", "company_admin"}

\* A companyId a request body leaves out, and the companyId read of a
\* user that does not exist; a role a request body leaves out.
Absent == -1

NoRole == ""

\* The bodies of POST /api/admin/users: the row to insert.
CreateBodies ==
    [id : UserIds, companyId : WsCompanies, role : Roles]

\* The bodies of PUT /api/admin/users/:id: the fields to set.
UpdateBodies ==
    [companyId : WsCompanies \cup {Absent}, role : Roles \cup {NoRole}]

\* targetUser?.companyId
CompanyIdOf(row) == IF row.exists THEN row.companyId ELSE Absent

\* storage.createCompanyUser(req.body): the insert fails when the id is
\* taken.
createCompanyUser(tbl, body) ==
    IF tbl[body.id].exists
    THEN [users |-> tbl, status |-> 500]
    ELSE [users |-> [tbl EXCEPT ![body.id] =
                        UserRow(body.companyId, body.role)],
          status |-> 200]

\* storage.updateUser(userId, req.body): sets the fields of the body.
updateUser(tbl, id, body) ==
    IF ~tbl[id].exists THEN tbl
    ELSE [tbl EXCEPT ![id] =
            UserRow(IF body.companyId = Absent THEN @.companyId
                    ELSE body.companyId,
                    IF body.role = NoRole THEN @.role ELSE body.role)]

\* storage.deleteUser(userId)
deleteUser(tbl, id) == [tbl EXCEPT ![id] = NoRow]

\* POST /api/admin/users by the user caller.
adminCreateUser(tbl, caller, body) ==
    LET user == tbl[caller]
    IN  IF user.role \notin AdminRoles
        THEN [users |-> tbl, status |-> 403]
        ELSE IF user.role = "company_admin"
                /\ body.companyId # user.companyId
        THEN [users |-> tbl, status |-> 403]
        ELSE createCompanyUser(tbl, body)

\* PUT /api/admin/users/:id by the user caller.
adminUpdateUser(tbl, caller, id, body) ==
    LET user == tbl[caller]
        targetUser == tbl[id]
    IN  IF user.role \notin AdminRoles
        THEN [users |-> tbl, status |-> 403]
        ELSE IF user.role = "company_admin"
                /\ CompanyIdOf(targetUser) # user.companyId
        THEN [users |-> tbl, status |-> 403]
        ELSE [users |-> updateUser(tbl, id, body), status |-> 200]

\* DELETE /api/admin/users/:id by the user caller.
adminDeleteUser(tbl, caller, id) ==
    LET user == tbl[caller]
        targetUser == tbl[id]
    IN  IF user.role \notin AdminRoles
        THEN [users |-> tbl, status |-> 403]
        ELSE IF user.role = "company_admin"
                /\ CompanyIdOf(targetUser) # user.companyId
        THEN [users |-> tbl, status |-> 403]
        ELSE [users |-> deleteUser(tbl, id), status |-> 200]

\* What an admin request did: id is the caller, count the status of the
\* response.
AdminOp(name, caller, status) ==
    [NoOp EXCEPT !.op = name, !.id = caller, !.count = status]

AdminCreateUser ==
    \E caller \in UserIds, body \in CreateBodies :
        /\ LET done == adminCreateUser(users, caller, body)
           IN  /\ users' = done.users
               /\ last' = AdminOp("adminCreateUser", caller, done.status)
        /\ UNCHANGED <<clientVars, cacheVars, now, db, posts, synced, wsVars>>

AdminUpdateUser ==
    \E caller \in UserIds, id \in UserIds, body \in UpdateBodies :
        /\ LET done == adminUpdateUser(users, caller, id, body)
           IN  /\ users' = done.users
               /\ last' = AdminOp("adminUpdateUser", caller, done.status)
        /\ UNCHANGED <<clientVars, cacheVars, now, db, posts, synced, wsVars>>

AdminDeleteUser ==
    \E caller \in UserIds, id \in UserIds :
        /\ LET done == adminDeleteUser(users, caller, id)
           IN  /\ users' = done.users
               /\ last' = AdminOp("adminDeleteUser", caller, done.status)
        /\ UNCHANGED <<clientVars, cacheVars, now, db, posts, synced, wsVars>>

SpecAdmin ==
    /\ Init
    /\ [][
        \/ AdminCreateUser
        \/ AdminUpdateUser
        \/ AdminDeleteUser
       ]_vars

\* The two routes while no cache entry expires and no query fails.
SpecPostMessage ==
    /\ Init
    /\ [][
        \/ GetConversations
        \/ ConversationsQueryRuns
        \/ ConversationsQueryReturns
        \/ PostMessageInserts
        \/ PostMessageUpdates
        \/ PostMessageFails
        \/ PostMessageCompletes
       ]_vars

\* POST /api/messages with any conversation id, with the reads of the
\* list and the connections of the users.
SpecPostInto ==
    /\ Init
    /\ [][
        \/ GetConversations
        \/ ConversationsQueryRuns
        \/ ConversationsQueryReturns
        \/ ConnectWithToken
        \/ UserLookupReturns
        \/ PostMessageInsertsInto
        \/ PostMessageUpdates
        \/ PostMessageCompletes
       ]_vars

postMessageFailingInvalidating(st, companyId, error) ==
    IF error = "getUser"
    THEN [st EXCEPT !.threw = TRUE, !.status = 500,
                    !.steps = <<"res.status(500)">>]
    ELSE IF companyId = Null
    THEN [st EXCEPT !.status = 400, !.steps = <<"res.status(400)">>]
    ELSE [st EXCEPT !.cache = invalidateCache(@, conversationsKey(companyId)),
                    !.threw = TRUE, !.status = 500,
                    !.steps = <<"invalidateCache", "res.status(500)">>]

\* POST /api/messages of a user of company companyId (Null: none) when
\* error is raised before the message row is written: the catch block
\* responds 500; a user without company is answered 400 before anything
\* else is tried.
postMessageFailing(st, companyId, error) ==
    IF error = "getUser"
    THEN [st EXCEPT !.threw = TRUE, !.status = 500,
                    !.steps = <<"res.status(500)">>]
    ELSE IF companyId = Null
    THEN [st EXCEPT !.status = 400, !.steps = <<"res.status(400)">>]
    ELSE [st EXCEPT !.threw = TRUE, !.status = 500,
                    !.steps = <<"res.status(500)">>]

\* A POST /api/messages that fails before the message row is written. In
\* last, count is the status of the response.
PostMessageRejected ==
    \E p \in PostIds, T \in RouteCompanies \cup {Null},
       error \in {"none", "getUser", "parse", "createMessage"} :
        /\ posts[p].pc = "idle"
        /\ \A q \in PostIds : q < p => posts[q].pc # "idle"
        /\ T = Null \/ error # "none"
        /\ LET done == postMessageFailing(
                          [cache |-> cache, sent |-> sent,
                           published |-> published, threw |-> FALSE,
                           status |-> 200, steps |-> <<>>],
                          T, error)
           IN  /\ cache' = done.cache
               /\ prev' = Forget(prev, done.cache)
               /\ sent' = done.sent
               /\ published' = done.published
               /\ last' = [Op("postFailed",
                              IF T = Null THEN <<>>
                              ELSE conversationsKey(T)) EXCEPT
                              !.id = p,
                              !.raised = error,
                              !.threw = done.threw,
                              !.steps = done.steps,
                              !.count = done.status]
        /\ posts' = [posts EXCEPT ![p] = [IdlePost EXCEPT !.pc = "done"]]
        /\ UNCHANGED <<clientVars, now, calls, db, synced, users, clients, conns,
                       wssClients>>

\* The requests that fail, with the reads of the list and the connections
\* of the clients.
SpecPostFailure ==
    /\ Init
    /\ [][
        \/ GetConversations
        \/ ConversationsQueryRuns
        \/ ConversationsQueryReturns
        \/ ConnectAnonymous
        \/ PeerCloses
        \/ PostMessageRejected
       ]_vars

-----------------------------------------------------------------------------
(* The client: the useWebSocket hook *)

\* The number of WebSocket objects created so far.
Created(h) == Cardinality({s \in SockIds : h.socks[s].readyState # "NONE"})

\* connect(), as the closure made while enabled is true: nothing when the
\* current socket is open, otherwise a new WebSocket becomes the current
\* one. Every socket is created by such a closure, so the closure a
\* reconnect timer calls is one.
connect(h) ==
    IF h.wsCurrent # 0 /\ h.socks[h.wsCurrent].readyState = "OPEN"
    THEN h
    ELSE [h EXCEPT !.wsCurrent = Created(h) + 1,
                   !.socks[Created(h) + 1] =
                       [NoSock EXCEPT !.readyState = "CONNECTING"]]

\* WebSocket.close(1000, reason) in the browser: an open socket starts the
\* closing handshake and its close event carries 1000; a socket that is
\* still connecting is failed, and its close event carries 1006.
browserClose(sock) ==
    CASE sock.readyState = "OPEN" ->
            [sock EXCEPT !.readyState = "CLOSING", !.manual = TRUE,
                         !.code = 1000]
      [] sock.readyState = "CONNECTING" ->
            [sock EXCEPT !.readyState = "CLOSING", !.manual = TRUE,
                         !.code = 1006]
      [] OTHER -> sock

\* disconnect(): closes the current socket and forgets it; the timers
\* that are pending stay.
disconnect(h) ==
    IF h.wsCurrent # 0
    THEN [h EXCEPT !.socks[h.wsCurrent] = browserClose(@), !.wsCurrent = 0]
    ELSE h

\* ws.onopen
onopen(h) == [h EXCEPT !.reconnectAttempts = 0]

\* ws.onclose of socket s with event.code = code: a timer is set, with
\* its delay in seconds.
onclose(h, s, code) ==
    IF code # 1000 /\ h.reconnectAttempts < maxReconnectAttempts
    THEN [h EXCEPT !.timers[Pow2(h.reconnectAttempts)] = @ + 1]
    ELSE h

\* The callback of the timer set by onclose.
reconnect(h) == connect([h EXCEPT !.reconnectAttempts = @ + 1])

\* What the hook did: id is the socket, count the code of the close event.
HookOp(name, id, count) ==
    [NoOp EXCEPT !.op = name, !.id = id, !.count = count]

\* The effect runs with enabled true (the hook is mounted or enabled):
\* connect().
HookEnabled ==
    /\ ~hook.enabled
    /\ hook.enables < MaxEnables
    /\ Created(hook) < MaxSockets
    /\ hook' = [connect(hook) EXCEPT !.enabled = TRUE,
                                     !.enables = @ + 1,
                                     !.disconnected = FALSE]
    /\ last' = HookOp("enable", 0, 0)
    /\ UNCHANGED <<cacheVars, now, routeVars, wsVars, api>>

\* The hook is disabled or unmounted: the cleanup of the effect calls
\* disconnect(), and so does the effect when enabled is false.
HookDisabled ==
    /\ hook.enabled
    /\ hook' = [disconnect(disconnect(hook)) EXCEPT !.enabled = FALSE,
                                                    !.disconnected = TRUE]
    /\ last' = HookOp("disable", 0, 0)
    /\ UNCHANGED <<cacheVars, now, routeVars, wsVars, api>>

\* The connection of a socket is established: its open event.
WsOpens ==
    \E s \in SockIds :
        /\ hook.socks[s].readyState = "CONNECTING"
        /\ hook' = onopen([hook EXCEPT !.socks[s].readyState = "OPEN"])
        /\ last' = HookOp("onopen", s, 0)
        /\ UNCHANGED <<cacheVars, now, routeVars, wsVars, api>>

\* A socket has closed: its close event, with the code settled by
\* close(), with 1006 when the connection could not be made, with 1000
\* or 1006 when an open connection ended.
WsCloses ==
    \E s \in SockIds, code \in {1000, 1006} :
        /\ hook.socks[s].readyState \in {"CONNECTING", "OPEN", "CLOSING"}
        /\ hook.socks[s].readyState = "CLOSING" => code = hook.socks[s].code
        /\ hook.socks[s].readyState = "CONNECTING" => code = 1006
        /\ hook' = onclose([hook EXCEPT !.socks[s] =
                              [NoSock EXCEPT !.readyState = "CLOSED"]],
                           s, code)
        /\ last' = HookOp("onclose", s, code)
        /\ UNCHANGED <<cacheVars, now, routeVars, wsVars, api>>

\* A timer set by onclose fires.
ReconnectTimerFires ==
    \E d \in Delays :
        /\ hook.timers[d] > 0
        /\ \/ Created(hook) < MaxSockets
           \/ /\ hook.wsCurrent # 0
              /\ hook.socks[hook.wsCurrent].readyState = "OPEN"
        /\ hook' = reconnect([hook EXCEPT !.timers[d] = @ - 1])
        /\ last' = HookOp("timer", 0, d)
        /\ UNCHANGED <<cacheVars, now, routeVars, wsVars, api>>

SpecHook ==
    /\ Init
    /\ [][
        \/ HookEnabled
        \/ HookDisabled
        \/ WsOpens
        \/ WsCloses
        \/ ReconnectTimerFires
       ]_vars

-----------------------------------------------------------------------------
(* The client: apiRequest *)

\* What fetch rejects with: the TypeError of a request that failed, the
\* AbortError of the 10 second timer, an error named NetworkError.
RequestErrors ==
    {[name |-> "TypeError",
      message |-> <<"F", "a", "i", "l", "e", "d", " ", "t", "o", " ",
                    "f", "e", "t", "c", "h">>],
     [name |-> "AbortError",
      message |-> <<"a", "b", "o", "r", "t", "e", "d">>],
     [name |-> "NetworkError", message |-> <<>>]}

\* new Error(`HTTP ${response.status}: ${response.statusText}`) for the
\* responses that are not ok.
HttpErrors ==
    {[name |-> "Error",
      message |-> <<"H", "T", "T", "P", " ", "5", "0", "0", ":", " ">>],
     [name |-> "Error",
      message |-> <<"H", "T", "T", "P", " ", "5", "0", "4", ":", " ",
                    "G", "a", "t", "e", "w", "a", "y", " ",
                    "T", "i", "m", "e", "o", "u", "t">>],
     [name |-> "Error",
      message |-> <<"H", "T", "T", "P", " ", "5", "9", "9", ":", " ",
                    "n", "e", "t", "w", "o", "r", "k", " ",
                    "t", "i", "m", "e", "o", "u", "t">>]}

\* What response.json() rejects with: the SyntaxError of a body that is
\* not JSON, the TypeError of a connection lost while the body is read.
BodyErrors ==
    {[name |-> "SyntaxError",
      message |-> <<"U", "n", "e", "x", "p", "e", "c", "t", "e", "d">>],
     [name |-> "TypeError",
      message |-> <<"n", "e", "t", "w", "o", "r", "k", " ",
                    "e", "r", "r", "o", "r">>]}

\* isRetryableError(error)
isRetryableError(error) ==
    \/ error.name = "NetworkError"
    \/ error.name = "TypeError"
    \/ /\ error.message # <<>>
       /\ \/ Includes(error.message, <<"f", "e", "t", "c", "h">>)
          \/ Includes(error.message, <<"n", "e", "t", "w", "o", "r", "k">>)
          \/ Includes(error.message, <<"t", "i", "m", "e", "o", "u", "t">>)

\* Math.pow(2, 3 - retries) * 1000, in milliseconds: the 3 is written in
\* the expression, whatever the argument of the first call.
backoffDelay(retries) ==
    IF retries <= 3 THEN Pow2(3 - retries) * 1000
    ELSE 1000 \div Pow2(retries - 3)

\* The catch block of apiRequest for the error caught: it awaits the
\* delay to call apiRequest again, or throws the error.
apiRequestCatch(a, error) ==
    IF a.retries > 0 /\ isRetryableError(error)
    THEN [a EXCEPT !.pc = "waiting", !.error = error,
                   !.waits = Append(@, backoffDelay(a.retries))]
    ELSE [a EXCEPT !.pc = "threw", !.error = error]

\* What apiRequest did: err is the name of the error caught, count the
\* delay it awaits.
ApiOp(name, error, delay) ==
    [NoOp EXCEPT !.op = name, !.err = error, !.count = delay]

\* The catch block has run.
Caught(a, error) ==
    ApiOp(IF a.pc = "waiting" THEN "apiRetry" ELSE "apiThrew",
          error.name,
          IF a.pc = "waiting" THEN a.waits[Len(a.waits)] ELSE 0)

\* apiRequest(url, options, retries) is called, with retries left out
\* (3) or given, up to `await fetch(...)`; the timer that aborts the
\* request after 10 seconds is set.
ApiRequestCalled ==
    \E retries \in 0..MaxRetries :
        /\ api.pc \in {"idle", "returned", "threw"}
        /\ api' = [IdleRequest EXCEPT !.pc = "fetching",
                                      !.retries = retries,
                                      !.given = retries,
                                      !.attempts = 1]
        /\ last' = ApiOp("apiCall", "", 0)
        /\ UNCHANGED <<cacheVars, now, routeVars, wsVars, hook>>

\* fetch rejects: the request failed, or the timer has aborted it.
FetchRejects ==
    \E error \in RequestErrors :
        /\ api.pc = "fetching"
        /\ api' = apiRequestCatch(api, error)
        /\ last' = Caught(api', error)
        /\ UNCHANGED <<cacheVars, now, routeVars, wsVars, hook>>

\* fetch fulfils with the response, its status and headers: the timer is
\* cleared; a response that is not ok is thrown as an Error, of an ok one
\* the body is awaited, up to `await response.json()`.
ResponseArrives ==
    \E ok \in BOOLEAN, error \in HttpErrors :
        /\ api.pc = "fetching"
        /\ api' = IF ok THEN [api EXCEPT !.pc = "reading"]
                  ELSE apiRequestCatch(api, error)
        /\ last' = IF ok THEN ApiOp("apiResponse", "", 0)
                   ELSE Caught(api', error)
        /\ UNCHANGED <<cacheVars, now, routeVars, wsVars, hook>>

\* The body has arrived and is JSON: apiRequest returns it.
BodyRead ==
    /\ api.pc = "reading"
    /\ api' = [api EXCEPT !.pc = "returned"]
    /\ last' = ApiOp("apiReturned", "", 0)
    /\ UNCHANGED <<cacheVars, now, routeVars, wsVars, hook>>

\* response.json() rejects.
BodyFails ==
    \E error \in BodyErrors :
        /\ api.pc = "reading"
        /\ api' = apiRequestCatch(api, error)
        /\ last' = Caught(api', error)
        /\ UNCHANGED <<cacheVars, now, routeVars, wsVars, hook>>

\* The delay has passed: apiRequest(url, options, retries - 1), up to
\* `await fetch(...)`; what it returns or throws is what the outer call
\* returns or throws.
DelayElapses ==
    /\ api.pc = "waiting"
    /\ api' = [api EXCEPT !.pc = "fetching", !.retries = @ - 1,
                          !.attempts = @ + 1]
    /\ last' = ApiOp("apiDelay", "", 0)
    /\ UNCHANGED <<cacheVars, now, routeVars, wsVars, hook>>

\* The timers of the function fire: fetch settles, by the timer that
\* aborts it if by nothing else, and every delay passes. Once the
\* response has arrived no timer is set, and when the body arrives is
\* left to the server.
SpecApiRequest ==
    /\ Init
    /\ [][
        \/ ApiRequestCalled
        \/ FetchRejects
        \/ ResponseArrives
        \/ BodyRead
        \/ BodyFails
        \/ DelayElapses
       ]_vars
    /\ WF_vars(FetchRejects \/ ResponseArrives)
    /\ WF_vars(DelayElapses)

-----------------------------------------------------------------------------
(* Properties of the cache *)

\* C2: two withCache calls on a key made one after the other within the TTL
\* window, with no invalidateCache in between: the second call does not
\* invoke its fetcher and returns the value the first call returned.
C2_SecondCallUsesCache ==
    [][(/\ last'.op = "withCache"
        /\ last'.key \in DOMAIN prev
        /\ now <= prev[last'.key].until)
       => (/\ ~last'.fetched
           /\ last'.value = prev[last'.key].val)]_vars

\* C3: invalidateCache(substr) deletes every key that contains substr and
\* no other key, the entries that stay keep their value and expiry, and a
\* withCache call on a key that has no entry invokes its fetcher.
C3_InvalidateRemovesExactlyMatching ==
    [][/\ last'.op = "invalidateCache" =>
            /\ DOMAIN cache' \subseteq DOMAIN cache
            /\ \A k \in DOMAIN cache :
                 IF Includes(k, last'.key)
                 THEN k \notin DOMAIN cache'
                 ELSE k \in DOMAIN cache' /\ cache'[k] = cache[k]
       /\ (last'.op = "withCache" /\ last'.key \notin DOMAIN cache)
            => last'.fetched]_vars

\* An invalidation has deleted an entry and kept another one.
C3_Witness ==
    /\ last.op = "invalidateCache"
    /\ last.count >= 1
    /\ \E k \in DOMAIN cache : ~Includes(k, last.key)

\* C6: when the fetcher fails, withCache fails with the same error, the
\* cache is left as it was, and a key that had no usable entry has none
\* afterwards, so that the next call on it invokes its fetcher.
C6_FetchFailureLeavesCache ==
    [][last'.op = "rejected" =>
         /\ last'.err = last'.raised
         /\ cache' = cache
         /\ ~withCacheLookup(cache, now, last'.key).useCached
              => ~withCacheLookup(cache', now', last'.key).useCached]_vars

\* A fetcher has failed on a key that has no entry.
C6_Witness ==
    /\ last.op = "rejected"
    /\ last.err = "E2"
    /\ last.key \notin DOMAIN cache
    /\ DOMAIN cache # {}

\* C9: a withCache call returns no entry later than the time the entry was
\* stored at plus the ttl in seconds it was stored with.
C9_NeverReturnedPastExpiry ==
    [][(last'.op = "withCache" /\ ~last'.fetched)
       => now <= cache[last'.key].exp]_vars

\* C23: a withCache call that finds no live entry invokes its fetcher,
\* whether or not another call on the same key is in flight: one more call
\* is in flight and no other call is touched. When a fetcher resolves, its
\* own call alone completes, with the value the fetcher resolved with, and
\* that value is the entry of the key, whatever was stored before; the
\* entries of the other keys are untouched.
C23_EachMissFetchesItsOwn ==
    [][/\ (/\ last'.op = "withCache"
           /\ ~withCacheLookup(cache, now, last'.key).live) =>
            /\ last'.fetched
            /\ \E c \in CallIds :
                  /\ calls[c].pc = "idle"
                  /\ calls'[c].pc = "fetching"
                  /\ calls'[c].key = last'.key
                  /\ \A d \in CallIds \ {c} : calls'[d] = calls[d]
       /\ last'.op = "fulfilled" =>
            /\ \E c \in CallIds :
                  /\ calls[c].pc = "fetching"
                  /\ calls[c].key = last'.key
                  /\ calls'[c].pc = "idle"
                  /\ \A d \in CallIds \ {c} : calls'[d] = calls[d]
            /\ last'.key \in DOMAIN cache'
            /\ cache'[last'.key].v = last'.value
            /\ \A k \in (DOMAIN cache) \ {last'.key} :
                  k \in DOMAIN cache' /\ cache'[k] = cache[k]]_vars

\* Of two calls on one key that were in flight together the first has
\* resolved with 1 and is stored; the second one is still in flight.
C23_Witness ==
    /\ last.op = "fulfilled"
    /\ last.value = Num(1)
    /\ cache[last.key].v = Num(1)
    /\ \E c \in CallIds :
          calls[c].pc = "fetching" /\ calls[c].key = last.key

-----------------------------------------------------------------------------
(* Properties of the WebSocketManager *)

\* The keys of the groups a connection is in.
GroupsOf(map, c) == {key \in DOMAIN map : c \in Members(map, key)}

\* The event of the latest broadcastToCompany call.
LastEvent(pub) == pub[Len(pub)].event

\* C1: broadcastToCompany(T, E) sends E to every connection that is in T's
\* group and open when it is called, and nothing to a connection that is
\* in another company's group.
C1_BroadcastReachesGroupOnly ==
    [][last'.op = "broadcast" =>
         \A c \in ConnIds :
            /\ (/\ c \in Members(clients, companyKey(last'.id))
                /\ conns[c].readyState = "OPEN")
               => sent'[c] = Append(sent[c], LastEvent(published'))
            /\ (/\ c \in Registered(clients)
                /\ c \notin Members(clients, companyKey(last'.id)))
               => sent'[c] = sent[c]]_vars

\* An event was published to a company with an open connection while a
\* connection of another company was open: only the first has it.
C1_Witness ==
    /\ last.op = "broadcast"
    /\ \E c, d \in ConnIds :
          /\ c \in Members(clients, companyKey(last.id))
          /\ sent[c] = <<LastEvent(published)>>
          /\ d \in Registered(clients)
          /\ d \notin Members(clients, companyKey(last.id))
          /\ conns[d].readyState = "OPEN"
          /\ conns[d].companyId # Null
          /\ sent[d] = <<>>

\* C4: removeClient(C) removes no connection other than C, and when C is
\* not in the registry (removed or closed before) it changes nothing. The
\* close and error listeners call it for their connection, the heartbeat
\* for every connection that did not answer.
C4_RemoveClientIdempotent ==
    [][/\ last'.op \in {"close", "error"} =>
            /\ \A d \in ConnIds \ {last'.id} :
                  GroupsOf(clients', d) = GroupsOf(clients, d)
            /\ last'.id \notin Registered(clients')
            /\ last'.id \notin Registered(clients) => clients' = clients
       /\ last'.op = "sweep" =>
            \A d \in ConnIds :
               (d \notin wssClients \/ conns[d].isAlive # "false")
                  => GroupsOf(clients', d) = GroupsOf(clients, d)]_vars

\* The close listener has called removeClient for a connection that was
\* removed before, while another connection is registered.
C4_Witness ==
    /\ last.op = "close"
    /\ last.count = 0
    /\ Registered(clients) # {}

\* C5: a registered connection that was sent a probe at one sweep and has
\* not answered it at the next sweep is terminated and removed from its
\* group at that sweep; a connection terminated for that is closing and
\* in no group.
C5_UnansweredProbeTerminates ==
    [][/\ last'.op = "sweep" =>
            \A c \in Registered(clients) :
               conns[c].probe = "sent" =>
                  /\ c \notin Registered(clients')
                  /\ conns'[c].readyState = "CLOSING"
                  /\ conns'[c].probe = "timeout"
       /\ \A c \in ConnIds :
            conns'[c].probe = "timeout" =>
               /\ c \notin Registered(clients')
               /\ conns'[c].readyState = "CLOSING"]_vars

\* A sweep has terminated a connection that did not answer and has probed
\* again one that did.
C5_Witness ==
    /\ last.op = "sweep"
    /\ \E c, d \in ConnIds :
          /\ conns[c].probe = "timeout"
          /\ c \notin Registered(clients)
          /\ d \in Registered(clients)
          /\ conns[d].readyState = "OPEN"
          /\ conns[d].probe = "sent"

C10_RegistryWellFormed ==
    \A key \in DOMAIN clients :
        /\ Len(clients[key]) > 0
        /\ \A i, j \in 1..Len(clients[key]) :
              i # j => clients[key][i] # clients[key][j]
        /\ \A other \in (DOMAIN clients) \ {key} :
              Members(clients, key) \cap Members(clients, other) = {}

\* The last connection of a group was removed and the group is gone.
C10_Witness ==
    /\ last.op = "close"
    /\ last.count = 1
    /\ DOMAIN clients = {}
    /\ \A c \in ConnIds : conns[c].readyState = "CLOSED"

\* The frames of a connection that are events of the application.
EventsOf(frames) ==
    SelectSeq(frames, LAMBDA frame :
        frame.type \in {"new_message", "conversation_update"})

\* C11: a broadcastToCompany call passes the event once to send() of each
\* connection that is in the target group and open at the call; to no
\* other connection is an event ever sent, neither at the call nor at any
\* other step, and a connection not yet made has been sent nothing.
C11_ExactlyOneSendToOpenMembers ==
    [][\A c \in ConnIds :
          /\ IF /\ last'.op = "broadcast"
                /\ c \in Members(clients, companyKey(last'.id))
                /\ conns[c].readyState = "OPEN"
             THEN sent'[c] = Append(sent[c], LastEvent(published'))
             ELSE EventsOf(sent'[c]) = EventsOf(sent[c])
          /\ conns'[c].readyState = "NONE" => sent'[c] = <<>>]_vars

\* An event was published to a group with an open connection, which has it
\* once, and a closing connection, which has nothing.
C11_Witness ==
    /\ last.op = "broadcast"
    /\ \E c, d \in Members(clients, companyKey(last.id)) :
          /\ sent[c] = <<LastEvent(published)>>
          /\ conns[d].readyState = "CLOSING"
          /\ sent[d] = <<>>

\* C12: a connection opened by a user of a company is in the group of
\* that company and in no other group.
C12_RegisteredInOwnCompanyGroup ==
    \A c \in ConnIds :
        conns[c].owner # Null =>
            GroupsOf(clients, c) \subseteq {companyKey(conns[c].owner)}

\* C13: a connection whose user has no company is closed or is in the
\* group of a company: the registry has no group of no company, from
\* which removeClient, which looks a connection up by ws.companyId, could
\* not remove it.
C13_NoGroupWithoutCompany ==
    companyKey(Null) \notin DOMAIN clients

\* s is t with some of its elements left out.
RECURSIVE IsSubsequence(_, _)
IsSubsequence(s, t) ==
    IF s = <<>> THEN TRUE
    ELSE IF t = <<>> THEN FALSE
    ELSE IF Head(s) = Head(t) THEN IsSubsequence(Tail(s), Tail(t))
    ELSE IsSubsequence(s, Tail(t))

\* C17: the events passed to send() of a connection are in the order in
\* which they were published.
C17_FifoPerConnection ==
    \A c \in ConnIds : IsSubsequence(EventsOf(sent[c]),
                      [i \in 1..Len(published) |-> published[i].event])

\* An open connection has been sent two different events.
C17_Witness ==
    \E c \in ConnIds :
        /\ conns[c].readyState = "OPEN"
        /\ Len(EventsOf(sent[c])) = 2
        /\ sent[c][1] # sent[c][2]

\* C18: a message of a client that is not JSON, or has no type or an
\* unknown one, changes no connection (state, liveness flag), changes no
\* group, sends nothing and raises nothing out of the listener.
C18_MalformedMessageIgnored ==
    [][(/\ last'.op = "message"
        /\ last'.raised \in {"not json", "null", "{}", "bogus"}) =>
          /\ conns' = conns
          /\ clients' = clients
          /\ wssClients' = wssClients
          /\ sent' = sent
          /\ ~last'.threw]_vars

\* JSON null has arrived on a connection whose probe is unanswered; it is
\* open, in its group and still unanswered.
C18_Witness ==
    /\ last.op = "message"
    /\ last.raised = "null"
    /\ conns[last.id].readyState = "OPEN"
    /\ conns[last.id].isAlive = "false"
    /\ last.id \in Registered(clients)

\* C21: a connection that has closed is in no group, whenever the close
\* happened: before handleConnection was called, while it awaited the
\* user, or after it had registered the connection.
C21_ClosedConnectionInNoGroup ==
    \A c \in ConnIds :
        conns[c].readyState = "CLOSED" => c \notin Registered(clients)


\* C22: a connection that has answered every probe it was sent is not
\* terminated by a sweep and stays in its group: the sweep sets its
\* liveness flag to pending, sends it a new probe and changes nothing else
\* of it.
C22_AnsweringConnectionSurvivesSweep ==
    [][last'.op = "sweep" =>
         \A c \in wssClients :
            (conns[c].readyState = "OPEN" /\ conns[c].probe # "sent") =>
               /\ conns'[c] = [conns[c] EXCEPT !.isAlive = "false",
                                               !.probe = "sent"]
               /\ c \in Registered(clients')
               /\ GroupsOf(clients', c) = GroupsOf(clients, c)]_vars

\* A sweep has terminated a connection that did not answer, and has probed
\* again a connection made before it, which had answered the probe of the
\* sweep before.
C22_Witness ==
    /\ last.op = "sweep"
    /\ \E c, d \in ConnIds :
          /\ c < d
          /\ conns[d].probe = "timeout"
          /\ conns[c].readyState = "OPEN"
          /\ conns[c].isAlive = "false"
          /\ conns[c].probe = "sent"
          /\ c \in Registered(clients)

-----------------------------------------------------------------------------
(* Properties of the routes *)

\* C8: once a write to a company's conversation list and the
\* invalidateCache call that follows it have completed, a read of the list
\* that is answered from the cache returns a list that was fetched after
\* the write, whatever fetches were in flight during the write.
C8_ReadAfterInvalidateIsFresh ==
    [][\A T \in RouteCompanies :
          (/\ last'.op = "withCache"
           /\ ~last'.fetched
           /\ last'.key = conversationsKey(T))
             => last'.value.val >= synced[T]]_vars

\* C14: a POST /api/messages that succeeds has persisted the message row
\* before it invalidates the cache, invalidates before it publishes the
\* event, and publishes before it responds; while the row is being
\* persisted the request invalidates and publishes nothing.
C14_PersistInvalidatePublishRespond ==
    [][/\ (last'.op = "post" /\ ~last'.threw) =>
            /\ posts[last'.id].pc = "updated"
            /\ posts[last'.id].ver > 0
            /\ db[posts[last'.id].company] >= posts[last'.id].ver
            /\ last'.key = conversationsKey(posts[last'.id].company)
            /\ last'.steps = <<"invalidateCache", "notifyNewMessage",
                               "res.json">>
            /\ last'.key \notin DOMAIN cache'
            /\ Len(published') = Len(published) + 1
            /\ published'[Len(published')].companyId
                  = posts[last'.id].company
       /\ last'.op \in {"insert", "update"} =>
            /\ cache' = cache
            /\ published' = published]_vars

\* A POST /api/messages has succeeded while the list of its company was
\* cached, and the entry is gone.
C14_Witness ==
    /\ last.op = "post"
    /\ ~last.threw
    /\ last.count = 1
    /\ Len(published) = 1

\* C15: when a route that changes a company's conversation list responds
\* with success, the cache holds no entry of that list that withCache
\* would return.
C15_WriteInvalidatesBeforeResponding ==
    [][(/\ last'.op \in {"post", "postConversation", "putConversation",
                         "markRead"}
        /\ ~last'.threw) =>
          ~withCacheLookup(cache', now', last'.key).useCached]_vars

\* C16: when PUT /api/conversations/:id responds, a conversation_update
\* event with the conversation and the new status has been published to
\* the connections of the conversation's company.
C16_StatusChangeIsPublished ==
    [][last'.op = "putConversation" =>
          \E conversationId \in ConversationIds :
             LET request == posts[last'.id]
                 done == notifyConversationUpdate(
                            clients, conns, sent, request.owner,
                            conversationId, request.status, now)
             IN  /\ sent' = done.sent
                 /\ published' = Append(published,
                       [companyId |-> request.owner,
                        event |-> ConversationUpdateEvent(
                            conversationId, request.status, now)])]_vars

\* C19: a request of a user of one company writes no conversation of
\* another company, and a read by id returns no conversation of another
\* company.
C19_CompanyIsolation ==
    [][/\ last'.op \in {"createConversation", "updateConversation",
                       "markMessagesAsRead"} =>
            \A T \in Companies :
               db'[T] # db[T] => T = posts'[last'.id].company
       /\ last'.op = "getConversation" => last'.count = last'.id]_vars

\* C24: a POST /api/messages that fails before the message row is written
\* responds with an error status and nothing else: no row is written, no
\* cache entry is deleted and no event is published or sent.
C24_FailedPostChangesNothing ==
    [][last'.op = "postFailed" =>
          /\ last'.count \in {400, 500}
          /\ last'.steps \in {<<"res.status(400)">>, <<"res.status(500)">>}
          /\ db' = db
          /\ cache' = cache
          /\ published' = published
          /\ sent' = sent]_vars

\* The insert of a user of company 1 has failed while the list of the
\* company was cached and a connection of its group was open: the entry
\* is there and the connection has been sent nothing.
C24_Witness ==
    /\ last.op = "postFailed"
    /\ last.raised = "createMessage"
    /\ last.count = 500
    /\ last.key = conversationsKey(1)
    /\ last.key \in DOMAIN cache
    /\ \E c \in Members(clients, companyKey(1)) :
          conns[c].readyState = "OPEN" /\ sent[c] = <<>>

\* C25: the invalidateCache call of a POST /api/messages of a user of one
\* company leaves the entry of every other company's conversation list in
\* the cache, with its value and its expiry.
C25_InvalidationSparesOtherTenants ==
    [][(last'.op = "post" /\ ~last'.threw) =>
          \A U \in RouteCompanies :
             (/\ conversationsKey(U) # last'.key
              /\ conversationsKey(U) \in DOMAIN cache)
                => /\ conversationsKey(U) \in DOMAIN cache'
                   /\ cache'[conversationsKey(U)]
                         = cache[conversationsKey(U)]]_vars

\* C26: the invalidateCache call and the new_message event of a
\* POST /api/messages are for the company that owns the conversation the
\* message was written to: that company's list is not in the cache
\* afterwards, the event is published to its group, and no connection
\* outside that group is sent anything.
C26_PostTargetsOwnerOfConversation ==
    [][(last'.op = "post" /\ ~last'.threw) =>
          LET owner == posts[last'.id].owner
          IN  /\ last'.key = conversationsKey(owner)
              /\ conversationsKey(owner) \notin DOMAIN cache'
              /\ published'[Len(published')].companyId = owner
              /\ \A c \in ConnIds :
                    c \notin Members(clients, companyKey(owner))
                       => sent'[c] = sent[c]]_vars

-----------------------------------------------------------------------------
(* Properties of the routes /api/admin/users *)

AdminOps == {"adminCreateUser", "adminUpdateUser", "adminDeleteUser"}

\* C20: a request of a company_admin creates, changes or deletes no user
\* row that is, before or after the request, of another company than the
\* admin's; a request that is answered 403 changes no row.
C20_CompanyAdminStaysInCompany ==
    [][last'.op \in AdminOps =>
         /\ users[last'.id].role = "company_admin" =>
               \A id \in UserIds :
                  users'[id] # users[id] =>
                     /\ users[id].exists =>
                           users[id].companyId = users[last'.id].companyId
                     /\ users'[id].exists =>
                           users'[id].companyId = users[last'.id].companyId
         /\ last'.count = 403 => users' = users]_vars

\* The users whose role is super_admin.
SuperAdmins(tbl) ==
    {id \in UserIds : tbl[id].exists /\ tbl[id].role = "super_admin"}

\* C27: a request of a company_admin leaves the set of the super_admin
\* users as it was: it creates no user with that role and gives the role
\* to no user.
C27_CompanyAdminMakesNoSuperAdmin ==
    [][(last'.op \in AdminOps /\ users[last'.id].role = "company_admin")
          => SuperAdmins(users') = SuperAdmins(users)]_vars

-----------------------------------------------------------------------------
(* Properties of the client *)

\* C28: a close event with a code other than 1000 sets a reconnect timer
\* of 2^n seconds, n being reconnectAttempts, when n is below 5, which
\* makes 1, 2, 4, 8 or 16 seconds; no other close event sets a timer; an
\* open event sets reconnectAttempts to 0; reconnectAttempts is never
\* above 5.
C28_ReconnectBackoffBounded ==
    [][/\ last'.op = "onclose" =>
            IF /\ last'.count # 1000
               /\ hook.reconnectAttempts < maxReconnectAttempts
            THEN /\ hook'.timers =
                      [hook.timers EXCEPT
                          ![Pow2(hook.reconnectAttempts)] = @ + 1]
                 /\ Pow2(hook.reconnectAttempts) \in {1, 2, 4, 8, 16}
            ELSE hook'.timers = hook.timers
       /\ last'.op = "onopen" => hook'.reconnectAttempts = 0
       /\ hook'.reconnectAttempts <= maxReconnectAttempts]_vars

\* C29: the close event of a socket that disconnect() has closed sets no
\* reconnect timer, and from disconnect() until the hook is enabled again
\* no WebSocket is created, whatever timer fires.
C29_NoConnectionAfterDisconnect ==
    [][/\ (last'.op = "onclose" /\ hook.socks[last'.id].manual)
            => hook'.timers = hook.timers
       /\ (hook.disconnected /\ hook'.disconnected)
            => Created(hook') = Created(hook)]_vars

\* C30: apiRequest(url, options, r) makes at most r + 1 fetch calls, 4
\* when r is left out; it calls fetch again only after an error that
\* isRetryableError accepts, with retries left; the delays it awaits when
\* r is left out are 1, 2 and 4 seconds, in that order; it throws the
\* error caught last, when no retry is left or the error is not
\* retryable; and every call returns or throws in the end.
C30_ApiRequestRetriesBounded ==
    /\ [][/\ api'.attempts <= api'.given + 1
          /\ api'.given = DefaultRetries =>
                /\ api'.attempts <= 4
                /\ Len(api'.waits) <= 3
                /\ api'.waits = SubSeq(<<1000, 2000, 4000>>, 1,
                                      Len(api'.waits))
          /\ api'.attempts > api.attempts =>
                \/ last'.op = "apiCall"
                \/ /\ api.pc = "waiting"
                   /\ isRetryableError(api.error)
                   /\ Len(api.waits) = api.attempts
          /\ last'.op = "apiRetry" =>
                /\ api.retries > 0
                /\ api'.error.name = last'.err
                /\ isRetryableError(api'.error)
          /\ last'.op = "apiThrew" =>
                /\ api'.error.name = last'.err
                /\ api.retries = 0 \/ ~isRetryableError(api'.error)
                /\ api'.attempts = api.attempts]_vars
    /\ (api.pc \in {"fetching", "reading", "waiting"})
          ~> (api.pc \in {"returned", "threw"})

====
